---- MODULE Spec2Model ----
(***************************************************************************)
(* Model of gpu_writer.rs: a chain of GpuData blocks built with            *)
(* append_gpu_data onto EmptyGpuTable and serialised by write_into as a    *)
(* header of u32 word offsets followed by the blocks' bytes.               *)
(*                                                                         *)
(* A table is the nest of Cons values, written as a sequence whose first   *)
(* element is the outermost Cons's .0 (the block appended last) and whose  *)
(* Tail is its .1; EmptyGpuTable is the empty sequence.                    *)
(* A Pod element is its in-memory representation: a sequence of            *)
(* size_of::<T>() bytes.                                                   *)
(***************************************************************************)
EXTENDS Integers, Sequences, FiniteSets, TLC

\* ---------------------------------------------------------------- bounds
MaxBlocks == 3
MaxElems == 2
MaxFaultAt == 4

\* ------------------------------------------------------------- constants
U32Size == 4

VARIABLES endian, table, appended, writer, result, pc

vars == <<endian, table, appended, writer, result, pc>>

\* ------------------------------------------------------- byte arithmetic
Min(a, b) == IF a < b THEN a ELSE b

RECURSIVE Flatten(_)
Flatten(ss) == IF ss = <<>> THEN <<>> ELSE Head(ss) \o Flatten(Tail(ss))

Reverse(s) == [i \in 1..Len(s) |-> s[Len(s) + 1 - i]]

\* (x as u32).to_ne_bytes(): the low 32 bits of x, in the target's order
U32ToNeBytes(x) ==
  LET le == << x % 256, (x \div 256) % 256, (x \div 65536) % 256,
               (x \div 16777216) % 256 >>
  IN IF endian = "little" THEN le ELSE Reverse(le)

\* the u32 a reader of the buffer sees at byte offset off (cast_slice::<u8, u32>)
U32FromNeBytes(buf, off) ==
  LET b == SubSeq(buf, off + 1, off + 4)
      le == IF endian = "little" THEN b ELSE Reverse(b)
  IN le[1] + 256 * le[2] + 65536 * le[3] + 16777216 * le[4]

\* ---------------------------------------------------------------- writer
\* A destination: cap bytes of room (a &mut [u8] or a Cursor over one), an
\* optional I/O fault at the faultAt-th write_all call (0: none), the bytes
\* accepted so far and the outcome of every write_all call made on it.
NewWriter(cap, faultAt) ==
  [cap |-> cap, faultAt |-> faultAt, buf |-> <<>>, log |-> <<>>]

Ok(w) == [w |-> w, ok |-> TRUE]

\* writer.write_all(data): copies what fits; Err when not all of data fits
WriteAll(w, data) ==
  IF w.faultAt = Len(w.log) + 1 /\ data # <<>>
  THEN [w |-> [w EXCEPT !.log = Append(@, FALSE)], ok |-> FALSE]
  ELSE LET n == Min(w.cap - Len(w.buf), Len(data))
       IN [w |-> [w EXCEPT !.buf = @ \o SubSeq(data, 1, n),
                           !.log = Append(@, n = Len(data))],
           ok |-> n = Len(data)]

\* ---------------------------------------------------------------- blocks
\* &[T]
SliceBlock(stride, elems) ==
  [kind |-> "slice", stride |-> stride, elems |-> elems, size |-> 0,
   table |-> <<>>]

\* GpuDataIter::from(iter): counts a clone of the iterator
GpuDataIterFrom(stride, elems) ==
  [kind |-> "iter", stride |-> stride, elems |-> elems,
   size |-> stride * Len(elems), table |-> <<>>]

\* a table used as a GpuData block
TableBlock(t) ==
  [kind |-> "table", stride |-> 0, elems |-> <<>>, size |-> 0, table |-> t]

\* append_gpu_data(gpu_table, gpu_data) = Cons(gpu_data, gpu_table)
append_gpu_data(gpu_table, gpu_data) == <<gpu_data>> \o gpu_table

EmptyGpuTable == <<>>

\* --------------------------------------------------- GpuData / GpuTable
RECURSIVE DATA_COUNT(_)
\* variant: DATA_COUNT = T::DATA_COUNT, the + 1 left out
DATA_COUNT_stale(t) == IF t = EmptyGpuTable THEN 0 ELSE DATA_COUNT(Tail(t))

DATA_COUNT(t) == IF t = EmptyGpuTable THEN 0 ELSE DATA_COUNT(Tail(t)) + 1

RECURSIVE data_size(_), size(_), table_size(_)

\* GpuData::size of a block
size(b) ==
  CASE b.kind = "slice" -> b.stride * Len(b.elems)
    [] b.kind = "iter" -> b.size
    [] b.kind = "table" -> table_size(b.table)

\* variant: data_size = self.0.size(), the tail left out
data_size_headonly(t) == IF t = EmptyGpuTable THEN 0 ELSE size(Head(t))

\* GpuTable::data_size
data_size(t) ==
  IF t = EmptyGpuTable THEN 0 ELSE data_size(Tail(t)) + size(Head(t))

\* GpuData::size of a table
table_size(t) ==
  IF t = EmptyGpuTable THEN 0 ELSE U32Size * DATA_COUNT(t) + data_size(t)

RECURSIVE write_header_into(_, _, _)
\* variant: this node's entry written before the tail's entries
write_header_into_headfirst(t, data_offset, w) ==
  IF t = EmptyGpuTable THEN Ok(w)
  ELSE LET offset == data_offset + data_size(Tail(t))
           offset4 == offset \div U32Size
           r == WriteAll(w, U32ToNeBytes(offset4))
       IN IF ~r.ok THEN r ELSE write_header_into(Tail(t), data_offset, r.w)

\* variant: the byte offset written without the division by 4
write_header_into_bytes(t, data_offset, w) ==
  IF t = EmptyGpuTable THEN Ok(w)
  ELSE LET r == write_header_into(Tail(t), data_offset, w)
       IN IF ~r.ok THEN r
          ELSE LET offset == data_offset + data_size(Tail(t))
               IN WriteAll(r.w, U32ToNeBytes(offset))

\* variant: the word offset rounded up
write_header_into_roundup(t, data_offset, w) ==
  IF t = EmptyGpuTable THEN Ok(w)
  ELSE LET r == write_header_into(Tail(t), data_offset, w)
       IN IF ~r.ok THEN r
          ELSE LET offset == data_offset + data_size(Tail(t))
                   offset4 == (offset + U32Size - 1) \div U32Size
               IN WriteAll(r.w, U32ToNeBytes(offset4))

write_header_into(t, data_offset, w) ==
  IF t = EmptyGpuTable THEN Ok(w)
  ELSE LET r == write_header_into(Tail(t), data_offset, w)
       IN IF ~r.ok THEN r
          ELSE LET offset == data_offset + data_size(Tail(t))
                   offset4 == offset \div U32Size
               IN WriteAll(r.w, U32ToNeBytes(offset4))

\* GpuDataIter::write_into: one write_all per element, stopping at the first Err
RECURSIVE iter_write_into(_, _)
iter_write_into(elems, w) ==
  IF elems = <<>> THEN Ok(w)
  ELSE LET r == WriteAll(w, Head(elems))
       IN IF ~r.ok THEN r ELSE iter_write_into(Tail(elems), r.w)

\* <&[T]>::write_into: one write_all of the whole slice
slice_write_into(elems, w) == WriteAll(w, Flatten(elems))

RECURSIVE write_into(_, _), write_data_into(_, _), table_write_into(_, _)

\* GpuData::write_into of a block
write_into(b, w) ==
  CASE b.kind = "slice" -> slice_write_into(b.elems, w)
    [] b.kind = "iter" -> iter_write_into(b.elems, w)
    [] b.kind = "table" -> table_write_into(b.table, w)

\* variant: the head's bytes written before the tail's
write_data_into_headfirst(t, w) ==
  IF t = EmptyGpuTable THEN Ok(w)
  ELSE LET r == write_into(Head(t), w)
       IN IF ~r.ok THEN r ELSE write_data_into(Tail(t), r.w)

\* variant: the tail's Err dropped instead of returned
write_data_into_continue(t, w) ==
  IF t = EmptyGpuTable THEN Ok(w)
  ELSE LET r == write_data_into(Tail(t), w)
       IN write_into(Head(t), r.w)

write_data_into(t, w) ==
  IF t = EmptyGpuTable THEN Ok(w)
  ELSE LET r == write_data_into(Tail(t), w)
       IN IF ~r.ok THEN r ELSE write_into(Head(t), r.w)

\* variant: the result of write_data_into discarded
table_write_into_swallow(t, w) ==
  IF t = EmptyGpuTable THEN Ok(w)
  ELSE LET r == write_header_into(t, U32Size * DATA_COUNT(t), w)
       IN IF ~r.ok THEN r ELSE Ok(write_data_into(t, r.w).w)

\* variant: the header written with data offset 0 instead of 4 * DATA_COUNT
table_write_into_nobase(t, w) ==
  IF t = EmptyGpuTable THEN Ok(w)
  ELSE LET r == write_header_into(t, 0, w)
       IN IF ~r.ok THEN r ELSE write_data_into(t, r.w)

\* GpuData::write_into of a table
table_write_into(t, w) ==
  IF t = EmptyGpuTable THEN Ok(w)
  ELSE LET r == write_header_into(t, U32Size * DATA_COUNT(t), w)
       IN IF ~r.ok THEN r ELSE write_data_into(t, r.w)

\* ---------------------------------------------------------------- inputs
\* element types of the blocks: (kind, size_of::<T>())
Shapes == { <<"slice", 1>>, <<"iter", 2>>, <<"slice", 4>> }

\* blocks held by t, counting those of the tables nested in it
RECURSIVE Weight(_)
Weight(t) ==
  IF t = <<>> THEN 0
  ELSE Weight(Tail(t)) + 1
       + (IF Head(t).kind = "table" THEN Weight(Head(t).table) ELSE 0)

\* n elements of the given stride; every byte differs between the blocks
Elems(stride, n, fill) ==
  [k \in 1..n |-> [j \in 1..stride |-> (fill + (k - 1) * stride + j - 1) % 256]]

\* first byte of the k-th block built
Fill(k) == (32 * k) % 256

Block(shape, n, fill) ==
  IF shape[1] = "slice" THEN SliceBlock(shape[2], Elems(shape[2], n, fill))
  ELSE GpuDataIterFrom(shape[2], Elems(shape[2], n, fill))

\* ------------------------------------------------------------ operations
Init ==
  /\ endian \in {"little", "big"}
  /\ table = EmptyGpuTable
  /\ appended = <<>>
  /\ writer = NewWriter(0, 0)
  /\ result = "none"
  /\ pc = "build"

\* let t = append_gpu_data(t, block) for a slice or an iterator block
AppendData ==
  /\ pc = "build"
  /\ Weight(table) < MaxBlocks
  /\ \E shape \in Shapes, n \in 0..MaxElems :
       LET b == Block(shape, n, Fill(Weight(table) + 1))
       IN /\ table' = append_gpu_data(table, b)
          /\ appended' = Append(appended, b)
  /\ UNCHANGED <<endian, writer, result, pc>>

\* let t = append_gpu_data(EmptyGpuTable, t): the table becomes a block
AppendTable ==
  /\ pc = "build"
  /\ Weight(table) < MaxBlocks
  /\ table' = append_gpu_data(EmptyGpuTable, TableBlock(table))
  /\ appended' = <<TableBlock(table)>>
  /\ UNCHANGED <<endian, writer, result, pc>>

\* t.write_into(&mut writer) on a fresh destination; consumes the table
WriteInto ==
  /\ pc = "build"
  /\ \E cap \in 0..(table_size(table) + 1), faultAt \in 0..MaxFaultAt :
       /\ faultAt # 0 => cap >= table_size(table)
       /\ LET r == table_write_into(table, NewWriter(cap, faultAt))
          IN /\ writer' = r.w
             /\ result' = IF r.ok THEN "ok" ELSE "err"
  /\ pc' = "done"
  /\ UNCHANGED <<endian, table, appended>>

Next == AppendData \/ AppendTable \/ WriteInto

Spec == Init /\ [][Next]_vars

\* ------------------------------------------- offsets beyond 32 bits
\* A usize (64-bit target) as its eight base-256 digits, least significant
\* first, so that sizes of 2^32 bytes and more can be added and divided.
USizeDigits == 8
U32Digits == 4

WFromNat(n) ==
  << n % 256, (n \div 256) % 256, (n \div 65536) % 256,
     (n \div 16777216) % 256, 0, 0, 0, 0 >>

RECURSIVE WAddFrom(_, _, _, _)
WAddFrom(a, b, i, carry) ==
  IF i > USizeDigits THEN <<>>
  ELSE LET s == a[i] + b[i] + carry
       IN <<s % 256>> \o WAddFrom(a, b, i + 1, s \div 256)

\* a + b on usize
WAdd(a, b) == WAddFrom(a, b, 1, 0)

\* offset / std::mem::size_of::<u32>() on usize
WDivU32Size(a) ==
  [i \in 1..USizeDigits |->
     (a[i] \div U32Size)
     + (IF i < USizeDigits THEN (a[i + 1] % U32Size) * (256 \div U32Size) ELSE 0)]

\* (x as u32).to_ne_bytes() of a usize
WU32ToNeBytes(x) ==
  LET le == SubSeq(x, 1, U32Digits)
  IN IF endian = "little" THEN le ELSE Reverse(le)

\* a &[u8] of len bytes; only its length matters to the header
WideSlice(len) == [kind |-> "slice", stride |-> 1, len |-> len]

\* <&[u8]>::size: size_of::<u8>() * self.len()
wide_size(b) == b.len

RECURSIVE wide_data_size(_)
wide_data_size(t) ==
  IF t = EmptyGpuTable THEN WFromNat(0)
  ELSE WAdd(wide_data_size(Tail(t)), wide_size(Head(t)))

RECURSIVE wide_write_header_into(_, _, _)
\* variant: the cast to u32 applied before the division
wide_write_header_into_castfirst(t, data_offset, w) ==
  IF t = EmptyGpuTable THEN Ok(w)
  ELSE LET r == wide_write_header_into(Tail(t), data_offset, w)
       IN IF ~r.ok THEN r
          ELSE LET offset == WAdd(data_offset, wide_data_size(Tail(t)))
                   offset32 == SubSeq(offset, 1, U32Digits) \o <<0, 0, 0, 0>>
               IN WriteAll(r.w, WU32ToNeBytes(WDivU32Size(offset32)))

wide_write_header_into(t, data_offset, w) ==
  IF t = EmptyGpuTable THEN Ok(w)
  ELSE LET r == wide_write_header_into(Tail(t), data_offset, w)
       IN IF ~r.ok THEN r
          ELSE LET offset == WAdd(data_offset, wide_data_size(Tail(t)))
                   offset4 == WDivU32Size(offset)
               IN WriteAll(r.w, WU32ToNeBytes(offset4))

\* slice lengths: 0, 4, 7, 2^32, 2^34 - 8, 2^34
WideLens ==
  { WFromNat(0), WFromNat(4), WFromNat(7),
    <<0, 0, 0, 0, 1, 0, 0, 0>>,
    <<248, 255, 255, 255, 3, 0, 0, 0>>,
    <<0, 0, 0, 0, 4, 0, 0, 0>> }

WideInit ==
  /\ endian \in {"little", "big"}
  /\ table = EmptyGpuTable
  /\ appended = <<>>
  /\ writer = NewWriter(0, 0)
  /\ result = "none"
  /\ pc = "build"

\* let t = append_gpu_data(t, &bytes[..]) for a large byte slice
WideAppend ==
  /\ pc = "build"
  /\ Len(table) < MaxBlocks
  /\ \E len \in WideLens :
       /\ table' = append_gpu_data(table, WideSlice(len))
       /\ appended' = Append(appended, WideSlice(len))
  /\ UNCHANGED <<endian, writer, result, pc>>

\* t.write_header_into(4 * DATA_COUNT, &mut writer) on a fresh destination
WideWriteHeader ==
  /\ pc = "build"
  /\ \E cap \in 0..(U32Size * DATA_COUNT(table)) :
       LET r == wide_write_header_into(table,
                  WFromNat(U32Size * DATA_COUNT(table)), NewWriter(cap, 0))
       IN /\ writer' = r.w
          /\ result' = IF r.ok THEN "ok" ELSE "err"
  /\ pc' = "done"
  /\ UNCHANGED <<endian, table, appended>>

WideNext == WideAppend \/ WideWriteHeader

SpecWide == WideInit /\ [][WideNext]_vars

\* ------------------------------------------------------------ properties
\* number of blocks appended, B0 .. B(N-1) being appended[1] .. appended[N]
N == Len(appended)

\* sum of size(Bj) over the first k appended blocks
RECURSIVE SumSize(_, _)
SumSize(bs, k) == IF k = 0 THEN 0 ELSE SumSize(bs, k - 1) + size(bs[k])

\* byte offset of block i's data in the output (i counted from 0)
TrueOffset(i) == U32Size * N + SumSize(appended, i)

TotalSize == U32Size * N + SumSize(appended, N)

\* the i-th header entry as a reader of the output sees it (i counted from 0)
Header(i) == U32FromNeBytes(writer.buf, U32Size * i)

\* the bytes a block stands for: its elements' memory, or the image of a table
BytesOf(b) ==
  IF b.kind = "table"
  THEN table_write_into(b.table, NewWriter(table_size(b.table), 0)).w.buf
  ELSE Flatten(b.elems)

RECURSIVE Concat(_, _)
Concat(bs, k) == IF k = 0 THEN <<>> ELSE Concat(bs, k - 1) \o BytesOf(bs[k])

Written == pc = "done" /\ result = "ok"

\* C1: after a successful write_into of a chain of N >= 1 blocks the i-th
\* header word is (4*N + sum of size(Bj), j < i) / 4, in append order; entry 0
\* is N.
HeaderOrder ==
  (Written /\ N >= 1) =>
     /\ Header(0) = N
     /\ \A i \in 0..(N - 1) : Header(i) = TrueOffset(i) \div 4

HeaderOrderWitness ==
  /\ Written /\ N >= 3
  /\ size(appended[1]) > 0 /\ size(appended[2]) > 0
  /\ size(appended[1]) # size(appended[2])

\* C2: after a successful write_into the bytes after the 4*N header bytes are
\* B0, B1, .. B(N-1) back to back, block i at [4N + sum(j<i), 4N + sum(j<=i)),
\* and the first 4*N bytes hold the header only.
DataOrder ==
  (Written /\ N >= 1) =>
     /\ Len(writer.buf) = TotalSize
     /\ SubSeq(writer.buf, U32Size * N + 1, Len(writer.buf)) = Concat(appended, N)
     /\ \A i \in 0..(N - 1) :
          SubSeq(writer.buf, TrueOffset(i) + 1, TrueOffset(i + 1))
            = BytesOf(appended[i + 1])
     /\ \A i \in 0..(N - 1) :
          SubSeq(writer.buf, U32Size * i + 1, U32Size * (i + 1))
            = U32ToNeBytes(TrueOffset(i) \div 4)

DataOrderWitness ==
  /\ Written /\ N >= 3
  /\ \A i \in 1..3 : size(appended[i]) > 0
  /\ appended[1].kind # appended[2].kind

\* C3: a destination of exactly 4*N + sum of the sizes takes the whole image
\* and is advanced by that many bytes; one byte less makes write_into fail.
SizeConsistency ==
  (pc = "done" /\ writer.faultAt = 0) =>
     /\ writer.cap = TotalSize => (result = "ok" /\ Len(writer.buf) = TotalSize)
     /\ writer.cap = TotalSize - 1 => result = "err"

SizeConsistencyWitness ==
  /\ pc = "done" /\ writer.faultAt = 0 /\ N >= 2
  /\ writer.cap = TotalSize - 1
  /\ result = "err"
  /\ size(appended[N]) > 0

\* C4: when every block size is a multiple of 4, the size(Bi) bytes found at
\* byte offset 4 * header[i] of the output are the bytes of Bi.
RoundTrip ==
  (Written /\ \A j \in 1..N : size(appended[j]) % 4 = 0) =>
     \A i \in 0..(N - 1) :
        /\ 4 * Header(i) + size(appended[i + 1]) <= Len(writer.buf)
        /\ SubSeq(writer.buf, 4 * Header(i) + 1, 4 * Header(i) + size(appended[i + 1]))
             = BytesOf(appended[i + 1])

RoundTripWitness ==
  /\ Written /\ N >= 2
  /\ \A j \in 1..N : size(appended[j]) % 4 = 0 /\ size(appended[j]) > 0

\* C5: write_into returns Err exactly when a write to the destination failed,
\* and the failed write is the last write made on the destination.
FailurePropagation ==
  pc = "done" =>
     /\ result = "err" <=> \E k \in 1..Len(writer.log) : ~writer.log[k]
     /\ \A k \in 1..Len(writer.log) : ~writer.log[k] => k = Len(writer.log)

FailurePropagationWitness ==
  /\ pc = "done" /\ result = "err" /\ N >= 2
  /\ Len(writer.log) = 1
  /\ size(appended[N]) > 0

\* C6: block_count of the table built by N appends is N (0 for EmptyGpuTable).
CountInvariant == DATA_COUNT(table) = N

CountInvariantWitness ==
  /\ N >= 3 /\ DATA_COUNT(table) = N
  /\ \E i, j \in 1..N : appended[i].kind # appended[j].kind

\* C7: data_size() is the sum of the appended blocks' size(), size() is
\* 4 * block_count + data_size() (0 for EmptyGpuTable); an append leaves the
\* destination alone and raises data_size() by the appended block's size().
SizeAccounting ==
  /\ [](/\ data_size(table) = SumSize(appended, N)
        /\ table_size(table) = U32Size * DATA_COUNT(table) + data_size(table)
        /\ table = EmptyGpuTable => table_size(table) = 0)
  /\ [][/\ AppendData =>
             /\ writer' = writer
             /\ data_size(table') = data_size(table) + size(Head(table'))
        /\ AppendTable =>
             /\ writer' = writer
             /\ data_size(table') = data_size(EmptyGpuTable) + size(Head(table'))]_vars

SizeAccountingWitness ==
  /\ N >= 3
  /\ data_size(table) = SumSize(appended, N)
  /\ \A i \in 1..N : size(appended[i]) > 0
  /\ table_size(table) = 12 + data_size(table)

\* C8: with a block whose size is not a multiple of 4 write_into still
\* succeeds (given room), every header word is the floor of the block's byte
\* offset over 4, and the offset exceeds 4 * header[i] by at most 3.
Truncation ==
  (pc = "done" /\ writer.faultAt = 0 /\ writer.cap >= TotalSize) =>
     /\ result = "ok"
     /\ \A i \in 0..(N - 1) :
          /\ 4 * Header(i) <= TrueOffset(i)
          /\ TrueOffset(i) - 4 * Header(i) <= 3
          /\ Header(i) = TrueOffset(i) \div 4

TruncationWitness ==
  /\ Written
  /\ \E i \in 0..(N - 1) : TrueOffset(i) - 4 * Header(i) = 3

\* C10: a non-empty table appended as a block counts as one block of size
\* 4*M + its data size, and its M header words inside the outer data section
\* are relative to its own first byte: the first of them is M.
NestedTable ==
  Written =>
     \A i \in 0..(N - 1) :
        Len(writer.buf) = TotalSize /\
        LET b == appended[i + 1]
            M == DATA_COUNT(b.table)
            inner == Reverse(b.table)
            at(k) == U32FromNeBytes(writer.buf, TrueOffset(i) + U32Size * k)
        IN (b.kind = "table" /\ M >= 1) =>
             /\ size(b) = U32Size * M + SumSize(inner, M)
             /\ TrueOffset(i + 1) = TrueOffset(i) + U32Size * M + SumSize(inner, M)
             /\ Len(table) = N
             /\ at(0) = M
             /\ \A k \in 0..(M - 1) :
                  /\ at(k) = (U32Size * M + SumSize(inner, k)) \div 4
                  /\ at(k) # (TrueOffset(i) + U32Size * M + SumSize(inner, k)) \div 4

NestedTableWitness ==
  /\ Written /\ N >= 2
  /\ appended[1].kind = "table"
  /\ DATA_COUNT(appended[1].table) >= 1
  /\ size(appended[1]) > U32Size

\* sum of the sizes of the first k appended slices
RECURSIVE WSumSize(_, _)
WSumSize(bs, k) ==
  IF k = 0 THEN WFromNat(0) ELSE WAdd(WSumSize(bs, k - 1), bs[k].len)

\* byte offset of slice i's data (i counted from 0)
WTrueOffset(i) == WAdd(WFromNat(U32Size * N), WSumSize(appended, i))

\* x < 2^34
WBelow2p34(x) == x[5] < 4 /\ x[6] = 0 /\ x[7] = 0 /\ x[8] = 0

\* the four bytes of header entry i as base-256 digits, least significant first
WHeader(i) ==
  LET b == SubSeq(writer.buf, U32Size * i + 1, U32Size * i + 4)
  IN IF endian = "little" THEN b ELSE Reverse(b)

\* C9: the entry written for block i is ((4*N + sum of size(Bj), j < i) / 4)
\* mod 2^32; it is the true word offset exactly when the byte offset is below
\* 2^34, and no error is returned when it is not.
HeaderWrap ==
  pc = "done" =>
     /\ writer.cap = U32Size * N => result = "ok"
     /\ result = "ok" =>
          \A i \in 0..(N - 1) :
             LET words == WDivU32Size(WTrueOffset(i))
             IN /\ WHeader(i) = SubSeq(words, 1, U32Digits)
                /\ (WHeader(i) \o <<0, 0, 0, 0>> = words) <=> WBelow2p34(WTrueOffset(i))

HeaderWrapWitness ==
  /\ Written /\ N >= 2
  /\ ~WBelow2p34(WTrueOffset(N - 1))
  /\ WHeader(N - 1) = <<2, 0, 0, 0>>

====
